---- MODULE Spec2Model ----
(***************************************************************************)
(* Model of the gauge-chart viz extension: the data layer of src/utils.js  *)
(* (encoding map, named rows, paged summary data, selection matching, fog  *)
(* colours) and the fetch/render cycle of src/code/circular-barplot-3.js.  *)
(*                                                                         *)
(* Conventions.  JavaScript arrays are sequences, so the 0-based index k   *)
(* of the source is position k+1 here.  A JavaScript string is a sequence  *)
(* of characters; the character '\x00' is written NUL.  A cell value is a  *)
(* record [t, s]: its JavaScript type and the text ToString gives for it.  *)
(* A row object is a record [tupleId, cells], cells being the function     *)
(* from the row's own field names to cell values.                          *)
(***************************************************************************)
EXTENDS Integers, Sequences, FiniteSets, TLC

VARIABLES
  \* computeFoggedBackgroundColor / calculateFogColor (utils.js 154-198)
  backgroundColor, fogBlendFactor, foggedBackground, fogColor, fogPc,
  \* findIdsOfMarks (utils.js 23-60): its two arguments and what it gave
  allMarks, selectedMarks, selOut, selPc,
  \* getEncodedData / getEncodedDataAndSelectedTuples (utils.js 102-152): the
  \* worksheet the host holds, the exported function called, the host calls
  \* awaited, and the locals of getDataAndVisualSpec and of its caller
  wsPages, wsVisualSpec, wsSelection,
  entry, dvPc, dvPending, originalData, visualSpec, encodingMap, encodedData,
  selectedTupleIds,
  \* circular-barplot-3.js: window.onload's position, the module's data, what
  \* the chart shows, the SummaryDataChanged events delivered; the host calls
  \* not yet answered; and, per invocation of fetchDataAndRender or of
  \* getSummaryDataTable, its position and locals
  loadPc, data, rendered, started, hostCalls,
  fPc, sPc, reader, currentPage, rows, pageLog, vSpec, encoded

fogVars == <<backgroundColor, fogBlendFactor, foggedBackground, fogColor, fogPc>>
selVars == <<allMarks, selectedMarks, selOut, selPc>>
wsVars == <<wsPages, wsVisualSpec, wsSelection>>
dvVars == <<entry, dvPc, dvPending, originalData, visualSpec, encodingMap,
            encodedData, selectedTupleIds>>
pageVars == <<hostCalls, sPc, reader, currentPage, rows, pageLog>>
cycleVars == <<loadPc, data, rendered, started, fPc, vSpec, encoded>>
vars == <<fogVars, selVars, wsVars, dvVars, pageVars, cycleVars>>

Idle == "idle"

FogIdle ==
  /\ backgroundColor = Idle
  /\ fogBlendFactor = 0
  /\ foggedBackground = Idle
  /\ fogColor = Idle
  /\ fogPc = Idle

SelIdle ==
  /\ allMarks = <<>>
  /\ selectedMarks = Idle
  /\ selOut = Idle
  /\ selPc = Idle

WsIdle ==
  /\ wsPages = <<>>
  /\ wsVisualSpec = Idle
  /\ wsSelection = Idle

\* The SummaryDataChanged events one run delivers at most.
MaxEvents == 2
\* Invocation 0 is the one of window.onload, 1..MaxEvents those of the events.
Invocations == 0..MaxEvents

PagesIdle ==
  /\ hostCalls = {}
  /\ sPc = [i \in Invocations |-> Idle]
  /\ reader = [i \in Invocations |-> <<>>]
  /\ currentPage = [i \in Invocations |-> 0]
  /\ rows = [i \in Invocations |-> <<>>]
  /\ pageLog = [i \in Invocations |-> <<>>]

CycleIdle ==
  /\ loadPc = Idle
  /\ data = <<>>
  /\ rendered = <<>>
  /\ started = 0
  /\ fPc = [i \in Invocations |-> Idle]
  /\ vSpec = [i \in Invocations |-> Idle]
  /\ encoded = [i \in Invocations |-> <<>>]

DvLocalsIdle ==
  /\ entry = Idle
  /\ dvPc = Idle
  /\ dvPending = {}
  /\ originalData = <<>>
  /\ visualSpec = Idle
  /\ encodingMap = <<>>
  /\ encodedData = <<>>
  /\ selectedTupleIds = {}

DvIdle == WsIdle /\ DvLocalsIdle

(***************************************************************************)
(* Cell values, rows and data tables.                                      *)
(***************************************************************************)
NUL == "NUL"

Str(chars) == [t |-> "string", s |-> chars]
\* What a property read gives for a field the object does not have.
Undefined == [t |-> "undefined", s |-> <<>>]

\* value + '\x00' appends NUL to the text of value.
JsToString(value) == value.s

\* The cell values of the bounded inputs: the empty string, the string of the
\* one character NUL, and an ordinary string.
Values == {Str(<<>>), Str(<<NUL>>), Str(<<"a">>)}

\* SeqsUpTo(S, n): the sequences over S of length at most n.
SeqsUpTo(S, n) == UNION {[1..k -> S] : k \in 0..n}

\* row[fieldName]
Cell(row, fieldName) ==
  IF fieldName \in DOMAIN row.cells THEN row.cells[fieldName] ELSE Undefined

\* utils.js 66-78.  Each row is numbered from 1 within the page it is in;
\* with two columns of one field name the later column's value stays.
convertToListOfNamedRows(dataTablePage) ==
  LET columns == dataTablePage.columns
      pageData == dataTablePage.data
      names == {columns[j].fieldName : j \in 1..Len(columns)}
      last(f) == CHOOSE j \in 1..Len(columns) :
                   /\ columns[j].fieldName = f
                   /\ \A k \in 1..Len(columns) :
                        columns[k].fieldName = f => k <= j
      at(i, j) == IF columns[j].index + 1 \in 1..Len(pageData[i])
                  THEN pageData[i][columns[j].index + 1]
                  ELSE Undefined
  IN  [i \in 1..Len(pageData) |->
         [tupleId |-> i, cells |-> [f \in names |-> at(i, last(f))]]]

\* utils.js 37-40 and 47-50: the values of the columns, each followed by NUL.
RECURSIVE MarkKey(_, _)
MarkKey(mark, columns) ==
  IF columns = <<>> THEN <<>>
  ELSE JsToString(Cell(mark, Head(columns).fieldName)) \o <<NUL>>
         \o MarkKey(mark, Tail(columns))

\* The number of columns read from mark before mark[col.fieldName].value
\* throws, every one of them when none does.
RECURSIVE ReadableColumns(_, _)
ReadableColumns(mark, columns) ==
  IF columns = <<>> \/ Cell(mark, Head(columns).fieldName) = Undefined THEN 0
  ELSE 1 + ReadableColumns(mark, Tail(columns))

\* utils.js 45-57: the loop over allMarks from position i on.  acc carries
\* tupleId, the ids added, and the counts of keys built and of column values
\* read so far.
RECURSIVE ScanMarks(_, _, _, _, _)
ScanMarks(marks, columns, selectedMarkMap, i, acc) ==
  IF i > Len(marks) THEN acc
  ELSE LET mark == marks[i]
           n == ReadableColumns(mark, columns)
       IN  IF n < Len(columns)
           THEN [acc EXCEPT !.outcome = "TypeError",
                            !.marksRead = acc.marksRead + n]
           ELSE ScanMarks(marks, columns, selectedMarkMap, i + 1,
                  [acc EXCEPT
                     !.ids = IF MarkKey(mark, columns) \in selectedMarkMap
                             THEN acc.ids \cup {acc.tupleId} ELSE acc.ids,
                     !.tupleId = acc.tupleId + 1,
                     !.keysBuilt = acc.keysBuilt + 1,
                     !.marksRead = acc.marksRead + n])

\* utils.js 45
FirstTupleId == 1

\* utils.js 23-60.  The result is the set of ids when outcome is "returned";
\* keysBuilt and marksRead count the composite keys built and the column
\* values of allMarks read on the way.
findIdsOfMarks(marks, selected) ==
  IF Len(selected.data) = 0
  THEN [outcome |-> "returned", ids |-> {}, tupleId |-> FirstTupleId,
        keysBuilt |-> 0, marksRead |-> 0]
  ELSE LET columns == selected.data[1].columns
           selectedRows == convertToListOfNamedRows(selected.data[1])
           selectedMarkMap == {MarkKey(selectedRows[i], columns) : i \in 1..Len(selectedRows)}
       IN  ScanMarks(marks, columns, selectedMarkMap, 1,
             [outcome |-> "returned", ids |-> {}, tupleId |-> FirstTupleId,
              keysBuilt |-> Len(selectedRows), marksRead |-> 0])

(***************************************************************************)
(* Fog colours.  The blend factors are float32 values written as doubles;  *)
(* both are exact multiples of 2^-26, so a factor is kept as its numerator *)
(* over 2^26.  (1 - f) * c and c * f are exact in double arithmetic for a  *)
(* channel c in 0..255, and x >>> 0 of a value in 0..255 is floor(x).      *)
(***************************************************************************)
CloseToWhite == 245
DarkBgThreshold == 75
\* 0.1850000023841858 * 2^26
DefaultFogBlendFactor == 12415140
\* 0.2750000059604645 * 2^26
DarkBgFogBlendFactor == 18454938

FactorOne == 2^26

\* floor(num * c / 2^26) for 0 <= num <= 2^26 and 0 <= c <= 255, computed in
\* two halves of 13 bits so that no intermediate product leaves 32 bits.
ScaleFloor(num, c) ==
  LET hi == num \div 2^13
      lo == num % 2^13
  IN  (c * hi + ((c * lo) \div 2^13)) \div 2^13

getFogBlendFactor(color) ==
  LET isDarkBackground == /\ color.r <= DarkBgThreshold
                          /\ color.g <= DarkBgThreshold
                          /\ color.b <= DarkBgThreshold
  IN  IF isDarkBackground THEN DarkBgFogBlendFactor ELSE DefaultFogBlendFactor

\* The clamp of computeFoggedBackgroundColor with the test of one channel only.
ClampMutant(rgbColor) ==
  [r |-> IF rgbColor.r >= CloseToWhite THEN CloseToWhite ELSE rgbColor.r,
   g |-> IF rgbColor.g >= CloseToWhite THEN CloseToWhite ELSE rgbColor.g,
   b |-> IF rgbColor.b >= CloseToWhite THEN CloseToWhite ELSE rgbColor.b]

\* utils.js 165-171: the colour is replaced by (245,245,245) when all three
\* channels are at least CloseToWhite, and left alone otherwise.
ClampCloseToWhite(rgbColor) ==
  IF /\ rgbColor.r >= CloseToWhite
     /\ rgbColor.g >= CloseToWhite
     /\ rgbColor.b >= CloseToWhite
  THEN [r |-> CloseToWhite, g |-> CloseToWhite, b |-> CloseToWhite]
  ELSE rgbColor

computeFoggedBackgroundColor(color, factor) ==
  LET rgbColor == ClampCloseToWhite(color)
  IN  [foggedBackgroundRed   |-> ScaleFloor(FactorOne - factor, rgbColor.r),
       foggedBackgroundGreen |-> ScaleFloor(FactorOne - factor, rgbColor.g),
       foggedBackgroundBlue  |-> ScaleFloor(FactorOne - factor, rgbColor.b)]

\* calculateFogColor on a parsed colour; the hex string is the channel triple.
calculateFogColor(color, fogged, factor) ==
  [r |-> fogged.foggedBackgroundRed   + ScaleFloor(factor, color.r),
   g |-> fogged.foggedBackgroundGreen + ScaleFloor(factor, color.g),
   b |-> fogged.foggedBackgroundBlue  + ScaleFloor(factor, color.b)]

\* Channel values the fog specification draws colours from.
ChannelSamples == {0, 75, 76, 244, 245, 246, 255}
Colors == [r : ChannelSamples, g : ChannelSamples, b : ChannelSamples]
\* Element colours handed to calculateFogColor.
ElementSamples == {0, 128, 255}
ElementColors == [r : ElementSamples, g : ElementSamples, b : ElementSamples]

\* What the steps on a worksheet leave alone.
DvFrame == UNCHANGED <<fogVars, selVars, wsVars, pageVars, cycleVars>>

\* What the steps of getSummaryDataTable leave alone besides the worksheet
\* and the fetch cycle.
PageFrame == UNCHANGED <<fogVars, selVars, dvVars>>

\* What the steps of the fetch cycle leave alone besides the worksheet and
\* the state of getSummaryDataTable.
CycleFrame == UNCHANGED <<fogVars, selVars, dvVars>>

\* What the fog steps leave alone.
FogFrame == UNCHANGED <<selVars, wsVars, dvVars, pageVars, cycleVars>>

FogInit ==
  /\ SelIdle
  /\ DvIdle
  /\ PagesIdle
  /\ CycleIdle
  /\ backgroundColor \in Colors
  /\ fogBlendFactor = 0
  /\ foggedBackground = Idle
  /\ fogColor = Idle
  /\ fogPc = "load"

\* utils.js 156
FogBlendFactorStep ==
  /\ fogPc = "load"
  /\ fogBlendFactor' = getFogBlendFactor(backgroundColor)
  /\ fogPc' = "factor"
  /\ UNCHANGED <<backgroundColor, foggedBackground, fogColor>>
  /\ FogFrame

\* utils.js 157
FoggedBackgroundStep ==
  /\ fogPc = "factor"
  /\ foggedBackground' = computeFoggedBackgroundColor(backgroundColor, fogBlendFactor)
  /\ fogPc' = "ready"
  /\ UNCHANGED <<backgroundColor, fogBlendFactor, fogColor>>
  /\ FogFrame

\* utils.js 180-188, called by the renderer once the module is loaded
CalculateFogColorCall ==
  /\ fogPc = "ready"
  /\ \E c \in ElementColors :
       fogColor' = calculateFogColor(c, foggedBackground, fogBlendFactor)
  /\ UNCHANGED <<backgroundColor, fogBlendFactor, foggedBackground, fogPc>>
  /\ FogFrame

FogNext == FogBlendFactorStep \/ FoggedBackgroundStep \/ CalculateFogColorCall

SpecFog == FogInit /\ [][FogNext]_vars

Min(a, b) == IF a <= b THEN a ELSE b

White == [r |-> 255, g |-> 255, b |-> 255]

Column(name, idx) == [fieldName |-> name, index |-> idx]

\* The well-formed tables (and pages) of the given columns with at most
\* maxRows rows over the given values.
TablesOf(columns, values, maxRows) ==
  {[columns |-> columns, data |-> d] :
     d \in SeqsUpTo([1..Len(columns) -> values], maxRows)}

(***************************************************************************)
(* The encoding map and the encoded rows.  An encoding map is the function *)
(* from the encoding ids it has as keys to the sequences of their fields.  *)
(***************************************************************************)
EmptyMap == [id \in {} |-> <<>>]

\* utils.js 13-15 with the list replaced, not extended, on a repeated id.
PushFieldMutant(map, encoding) ==
  [id \in DOMAIN map \cup {encoding.id} |->
     IF id = encoding.id THEN <<encoding.field>> ELSE map[id]]

\* utils.js 13-15: the list of encoding.id is created on first use and
\* encoding.field is pushed on it.
PushField(map, encoding) ==
  [id \in DOMAIN map \cup {encoding.id} |->
     IF id = encoding.id
     THEN (IF id \in DOMAIN map THEN map[id] ELSE <<>>) \o <<encoding.field>>
     ELSE map[id]]

\* utils.js 12-16: the loop over marksCard.encodings.
RECURSIVE AddEncodings(_, _)
AddEncodings(map, encodings) ==
  IF encodings = <<>> THEN map
  ELSE AddEncodings(PushField(map, Head(encodings)), Tail(encodings))

\* utils.js 6-19
getEncodingMap(spec) ==
  IF spec.activeMarksSpecificationIndex < 0 THEN EmptyMap
  ELSE AddEncodings(EmptyMap,
         spec.marksSpecifications[spec.activeMarksSpecificationIndex + 1].encodings)

\* utils.js 82-97 as one value: the rows of the pages from page k on, each
\* page converted by convertToListOfNamedRows and appended in page order.
RECURSIVE RowsFromPage(_, _)
RowsFromPage(pages, k) ==
  IF k > Len(pages) THEN <<>>
  ELSE convertToListOfNamedRows(pages[k]) \o RowsFromPage(pages, k + 1)

getSummaryDataTable(pages) == RowsFromPage(pages, 1)

\* utils.js 122-124 pushing a value only for the fields the row has.
ChannelValuesMutant(row, fields) ==
  LET present == SelectSeq(fields, LAMBDA f : f.name \in DOMAIN row.cells)
  IN  [j \in 1..Len(present) |-> Cell(row, present[j].name)]

\* utils.js 120-124: row[field.name] for each field of the channel, in order.
ChannelValues(row, fields) ==
  [j \in 1..Len(fields) |-> Cell(row, fields[j].name)]

\* utils.js 115 with the row's own $tupleId in place of the counter.
EncodedTupleIdMutant(row, tupleId) == row.tupleId

\* utils.js 115: the encoded row takes the running counter as its $tupleId.
EncodedTupleId(row, tupleId) == tupleId

\* utils.js 113-130: the loop over originalData; position k is the value of
\* tupleId, which starts at 1 and grows by one per row.
EncodeRows(rawRows, map) ==
  [k \in 1..Len(rawRows) |->
     [tupleId |-> EncodedTupleId(rawRows[k], k),
      channels |-> [encName \in DOMAIN map |-> ChannelValues(rawRows[k], map[encName])]]]

(***************************************************************************)
(* getEncodedData and getEncodedDataAndSelectedTuples on a worksheet.      *)
(***************************************************************************)
\* utils.js 109 (and 136 or 148): both host calls of Promise.all are issued.
GetDataAndVisualSpecCall ==
  /\ dvPc = "start"
  /\ dvPc' = "awaitAll"
  /\ dvPending' = {"summaryData", "visualSpec"}
  /\ UNCHANGED <<entry, originalData, visualSpec, encodingMap, encodedData,
                 selectedTupleIds>>
  /\ DvFrame

\* utils.js 109: getSummaryDataTable(worksheet) resolves.
SummaryDataResolved ==
  /\ "summaryData" \in dvPending
  /\ originalData' = getSummaryDataTable(wsPages)
  /\ dvPending' = dvPending \ {"summaryData"}
  /\ UNCHANGED <<entry, dvPc, visualSpec, encodingMap, encodedData,
                 selectedTupleIds>>
  /\ DvFrame

\* utils.js 109: worksheet.getVisualSpecificationAsync() resolves.
VisualSpecResolved ==
  /\ "visualSpec" \in dvPending
  /\ visualSpec' = wsVisualSpec
  /\ dvPending' = dvPending \ {"visualSpec"}
  /\ UNCHANGED <<entry, dvPc, originalData, encodingMap, encodedData,
                 selectedTupleIds>>
  /\ DvFrame

\* utils.js 111-132, then 136 (the encoded rows are returned) or 149 (the
\* selected marks are asked for).
EncodeStep ==
  /\ dvPc = "awaitAll"
  /\ dvPending = {}
  /\ encodingMap' = getEncodingMap(visualSpec)
  /\ encodedData' = EncodeRows(originalData, getEncodingMap(visualSpec))
  /\ IF entry = "getEncodedData"
     THEN dvPc' = "done" /\ dvPending' = {}
     ELSE dvPc' = "awaitSelection" /\ dvPending' = {"selectedMarks"}
  /\ UNCHANGED <<entry, originalData, visualSpec, selectedTupleIds>>
  /\ DvFrame

\* utils.js 142-144 and 151: getSelectedMarksAsync resolves and findIdsOfMarks
\* runs on the raw rows; a TypeError it throws rejects the call.
SelectedMarksResolved ==
  /\ dvPc = "awaitSelection"
  /\ "selectedMarks" \in dvPending
  /\ LET r == findIdsOfMarks(originalData, wsSelection)
     IN  /\ selectedTupleIds' = r.ids
         /\ dvPc' = IF r.outcome = "returned" THEN "done" ELSE "rejected"
  /\ dvPending' = {}
  /\ UNCHANGED <<entry, originalData, visualSpec, encodingMap, encodedData>>
  /\ DvFrame

(***************************************************************************)
(* getEncodedData on the visual specifications of the bounds below and a   *)
(* one-page worksheet with the column A.  The field C is on no row.        *)
(***************************************************************************)
MaxEncodings == 2
MaxMarksCards == 2
MaxEncodedRows == 2

Field(name) == [name |-> name]
Encodings == [id : {"edge", "level"}, field : {Field("A"), Field("C")}]
Cards == {[encodings |-> e] : e \in SeqsUpTo(Encodings, MaxEncodings)}
\* The marks cards beside the one the visual specification is drawn for.
OtherCards ==
  {[encodings |-> <<>>],
   [encodings |-> <<[id |-> "level", field |-> Field("A")]>>]}

\* A card of Cards among at most MaxMarksCards cards, active or with no
\* card active; and the specification of no card at all.
VisualSpecs ==
  {[activeMarksSpecificationIndex |-> -1, marksSpecifications |-> <<>>]}
    \cup
  UNION {
    {[activeMarksSpecificationIndex |-> i,
      marksSpecifications |-> pre \o <<c>> \o post] :
       c \in Cards,
       post \in SeqsUpTo(OtherCards, MaxMarksCards - 1 - Len(pre)),
       i \in {-1, Len(pre)}} :
    pre \in SeqsUpTo(OtherCards, MaxMarksCards - 1)}

EncInit ==
  /\ FogIdle
  /\ SelIdle
  /\ PagesIdle
  /\ CycleIdle
  /\ wsPages \in {<<>>} \cup
        {<<t>> : t \in TablesOf(<<Column("A", 0)>>, Values, MaxEncodedRows)}
  /\ wsVisualSpec \in VisualSpecs
  /\ wsSelection = Idle
  /\ entry = "getEncodedData"
  /\ dvPc = "start"
  /\ dvPending = {}
  /\ originalData = <<>>
  /\ visualSpec = Idle
  /\ encodingMap = <<>>
  /\ encodedData = <<>>
  /\ selectedTupleIds = {}

EncNext ==
  \/ GetDataAndVisualSpecCall
  \/ SummaryDataResolved
  \/ VisualSpecResolved
  \/ EncodeStep

SpecEnc == EncInit /\ [][EncNext]_vars

\* The encodings of the active marks card of the visual specification got.
ActiveEncodings ==
  visualSpec.marksSpecifications[visualSpec.activeMarksSpecificationIndex + 1].encodings

C6_EncodedRowsComplete ==
  dvPc = "done" =>
    /\ Len(encodedData) = Len(originalData)
    /\ \A k \in 1..Len(encodedData) :
         /\ DOMAIN encodedData[k].channels = DOMAIN encodingMap
         /\ \A ch \in DOMAIN encodingMap :
              LET got == encodedData[k].channels[ch]
                  fields == encodingMap[ch]
              IN  /\ Len(got) = Len(fields)
                  /\ \A j \in 1..Len(fields) :
                       got[j] = IF fields[j].name \in DOMAIN originalData[k].cells
                                THEN originalData[k].cells[fields[j].name]
                                ELSE Undefined

\* Two rows encoded under a channel of a field the rows lack and one they have.
C6_Witness ==
  /\ dvPc = "done"
  /\ Len(encodedData) = 2
  /\ "level" \in DOMAIN encodingMap
  /\ encodingMap["level"] = <<Field("C"), Field("A")>>
  /\ encodedData[2].channels["level"] = <<Undefined, Str(<<"a">>)>>
  /\ encodedData[1].channels["level"] = <<Undefined, Str(<<NUL>>)>>

(***************************************************************************)
(* getEncodedDataAndSelectedTuples on the paged worksheets and selections  *)
(* of the bounds below.  The rows carry the column A; a selection is no    *)
(* table or one table, of the column A or of a column B the rows lack.     *)
(***************************************************************************)
MaxPages == 2
MaxRowsPerPage == 2
MaxPickedRows == 2

PagedValues == {Str(<<>>), Str(<<"a">>)}

NeedleSpec ==
  [activeMarksSpecificationIndex |-> 0,
   marksSpecifications |->
     <<[encodings |-> <<[id |-> "needleValue", field |-> Field("A")]>>]>>]
NoCardSpec ==
  [activeMarksSpecificationIndex |-> -1, marksSpecifications |-> <<>>]

TuplesInit ==
  /\ FogIdle
  /\ SelIdle
  /\ PagesIdle
  /\ CycleIdle
  /\ wsPages \in
        SeqsUpTo(TablesOf(<<Column("A", 0)>>, PagedValues, MaxRowsPerPage), MaxPages)
  /\ wsVisualSpec \in {NeedleSpec, NoCardSpec}
  /\ wsSelection \in
        {[data |-> <<>>]} \cup
        {[data |-> <<t>>] :
           t \in TablesOf(<<Column("A", 0)>>, PagedValues, MaxPickedRows)
                   \cup TablesOf(<<Column("B", 0)>>, PagedValues, MaxPickedRows)}
  /\ entry = "getEncodedDataAndSelectedTuples"
  /\ dvPc = "start"
  /\ dvPending = {}
  /\ originalData = <<>>
  /\ visualSpec = Idle
  /\ encodingMap = <<>>
  /\ encodedData = <<>>
  /\ selectedTupleIds = {}

TuplesNext ==
  \/ GetDataAndVisualSpecCall
  \/ SummaryDataResolved
  \/ VisualSpecResolved
  \/ EncodeStep
  \/ SelectedMarksResolved

SpecTuples == TuplesInit /\ [][TuplesNext]_vars

\* Raw row k matches the selection as the Selection Matcher matches: its
\* composite key over the columns of the selection's first table is the key
\* of a row of that table.
MatchesSelection(k) ==
  /\ Len(wsSelection.data) > 0
  /\ LET table == wsSelection.data[1]
         picked == convertToListOfNamedRows(table)
     IN  \E i \in 1..Len(picked) :
           MarkKey(originalData[k], table.columns) = MarkKey(picked[i], table.columns)

\* C10: in the result of getEncodedDataAndSelectedTuples the encoded rows carry
\* the $tupleId values 1..N in order, and an id is in selectedTupleIds exactly
\* when the encoded row carrying it was derived from a raw row that matches
\* the selection, whatever $tupleId the raw rows carry.
C10_IdsAddressSameRow ==
  (entry = "getEncodedDataAndSelectedTuples" /\ dvPc = "done") =>
    /\ Len(encodedData) = Len(originalData)
    /\ \A k \in 1..Len(encodedData) : encodedData[k].tupleId = k
    /\ selectedTupleIds \subseteq 1..Len(encodedData)
    /\ \A k \in 1..Len(encodedData) :
         encodedData[k].tupleId \in selectedTupleIds <=> MatchesSelection(k)

\* Two pages of two rows: raw rows 3 and 4 carry the $tupleId 1 and 2, row 3
\* is selected with row 1, rows 2 and 4 are not.
C10_Witness ==
  /\ entry = "getEncodedDataAndSelectedTuples"
  /\ dvPc = "done"
  /\ Len(wsPages) = 2
  /\ Len(originalData) = 4
  /\ originalData[3].tupleId = 1
  /\ encodedData[3].tupleId = 3
  /\ selectedTupleIds = {1, 3}

(***************************************************************************)
(* getSummaryDataTable step by step.  A host call that was issued and not  *)
(* yet answered is a record of hostCalls; the host answers them in any     *)
(* order.  pageLog[i] lists the page indices invocation i asked for.       *)
(***************************************************************************)
HostCall(i, call, page) == [inv |-> i, call |-> call, page |-> page]

\* A continuation of fetchDataAndRender is ready to run: the promise jobs that
\* an answered host call made ready run before the next host call is
\* answered or the next event is delivered.
ContinuationReady ==
  \E i \in Invocations :
    \/ fPc[i] = "encoded"
    \/ /\ fPc[i] = "awaitAll"
       /\ sPc[i] = "returned"
       /\ HostCall(i, "visualSpec", -1) \notin hostCalls

\* utils.js 90-91 asking for every page left as soon as the reader is there.
PagesToRequestMutant(page, pageCount) ==
  IF page = 0 THEN {k \in 0..(pageCount - 1) : TRUE} ELSE {}

\* utils.js 90-91: the loop asks for page currentPage, and only for it, when
\* currentPage < pageCount.
PagesToRequest(page, pageCount) ==
  IF page < pageCount THEN {page} ELSE {}

\* The indices of a set of consecutive pages, in increasing order.
RECURSIVE InOrder(_)
InOrder(pages) ==
  IF pages = {} THEN <<>>
  ELSE LET least == CHOOSE k \in pages : \A m \in pages : k <= m
       IN  <<least>> \o InOrder(pages \ {least})

\* utils.js 90-94: what is awaited at page index page: the pages asked for,
\* or releaseAsync once the loop has ended.
LoopCalls(i, page, pageCount) ==
  IF page < pageCount
  THEN {HostCall(i, "page", k) : k \in PagesToRequest(page, pageCount)}
  ELSE {HostCall(i, "release", -1)}

\* utils.js 83-89: rows is empty and getSummaryDataReaderAsync is awaited.
SummaryCall(i) ==
  /\ sPc' = [sPc EXCEPT ![i] = "awaitReader"]
  /\ rows' = [rows EXCEPT ![i] = <<>>]
  /\ UNCHANGED <<reader, currentPage, pageLog>>

\* getSummaryDataTable(worksheet) called on its own.
GetSummaryDataTableCall(i) ==
  /\ sPc[i] = Idle
  /\ SummaryCall(i)
  /\ hostCalls' = hostCalls \cup {HostCall(i, "reader", -1)}
  /\ UNCHANGED <<wsVars, cycleVars>>
  /\ PageFrame

\* utils.js 87-91: the reader is there; the loop starts at page 0.
ReaderResolved(i) ==
  /\ ~ContinuationReady
  /\ HostCall(i, "reader", -1) \in hostCalls
  /\ reader' = [reader EXCEPT ![i] = wsPages]
  /\ currentPage' = [currentPage EXCEPT ![i] = 0]
  /\ sPc' = [sPc EXCEPT ![i] = IF 0 < Len(wsPages) THEN "awaitPage" ELSE "awaitRelease"]
  /\ pageLog' = [pageLog EXCEPT ![i] = InOrder(PagesToRequest(0, Len(wsPages)))]
  /\ hostCalls' = (hostCalls \ {HostCall(i, "reader", -1)})
                     \cup LoopCalls(i, 0, Len(wsPages))
  /\ UNCHANGED <<rows, wsVars, cycleVars>>
  /\ PageFrame

\* utils.js 91-92 and 90: page currentPage is there; its rows are appended,
\* currentPage grows by one and the loop goes on or ends.
PageResolved(i) ==
  /\ ~ContinuationReady
  /\ sPc[i] = "awaitPage"
  /\ HostCall(i, "page", currentPage[i]) \in hostCalls
  /\ LET next == currentPage[i] + 1
         pageCount == Len(reader[i])
     IN  /\ rows' = [rows EXCEPT ![i] =
                       @ \o convertToListOfNamedRows(reader[i][currentPage[i] + 1])]
         /\ currentPage' = [currentPage EXCEPT ![i] = next]
         /\ sPc' = [sPc EXCEPT ![i] =
                      IF next < pageCount THEN "awaitPage" ELSE "awaitRelease"]
         /\ pageLog' = [pageLog EXCEPT ![i] =
                          @ \o InOrder(PagesToRequest(next, pageCount))]
         /\ hostCalls' = (hostCalls \ {HostCall(i, "page", currentPage[i])})
                            \cup LoopCalls(i, next, pageCount)
  /\ UNCHANGED <<reader, wsVars, cycleVars>>
  /\ PageFrame

\* utils.js 94-96: the reader is released and rows is returned.
ReleaseResolved(i) ==
  /\ ~ContinuationReady
  /\ HostCall(i, "release", -1) \in hostCalls
  /\ hostCalls' = hostCalls \ {HostCall(i, "release", -1)}
  /\ sPc' = [sPc EXCEPT ![i] = "returned"]
  /\ UNCHANGED <<reader, currentPage, rows, pageLog, wsVars, cycleVars>>
  /\ PageFrame

(***************************************************************************)
(* One call of getSummaryDataTable on the paged worksheets of the bounds   *)
(* MaxPages and MaxRowsPerPage.                                            *)
(***************************************************************************)
PagesInit ==
  /\ FogIdle
  /\ SelIdle
  /\ DvLocalsIdle
  /\ CycleIdle
  /\ PagesIdle
  /\ wsPages \in
        SeqsUpTo(TablesOf(<<Column("A", 0)>>, PagedValues, MaxRowsPerPage), MaxPages)
  /\ wsVisualSpec = Idle
  /\ wsSelection = Idle

PagesNext ==
  \/ GetSummaryDataTableCall(1)
  \/ ReaderResolved(1)
  \/ PageResolved(1)
  \/ ReleaseResolved(1)

SpecPages == PagesInit /\ [][PagesNext]_vars

\* The rows of the first m pages, page after page.
RECURSIVE RowsOfFirstPages(_, _)
RowsOfFirstPages(pages, m) ==
  IF m = 0 THEN <<>>
  ELSE RowsOfFirstPages(pages, m - 1) \o convertToListOfNamedRows(pages[m])

RECURSIVE TotalRows(_)
TotalRows(pages) ==
  IF pages = <<>> THEN 0 ELSE Len(Head(pages).data) + TotalRows(Tail(pages))

PageCallsOf(i) == {c \in hostCalls : c.inv = i /\ c.call = "page"}

\* C1 as stated: the rows getSummaryDataTable returns carry the Tuple IDs
\* 1..N in output order, N the number of rows over all pages; the counter is
\* not reset at a page boundary.
C1_TupleIdsRunAcrossPages ==
  \A i \in Invocations :
    sPc[i] = "returned" =>
      /\ Len(rows[i]) = TotalRows(reader[i])
      /\ \A k \in 1..Len(rows[i]) : rows[i][k].tupleId = k

\* C8: the pages are asked for one at a time in the order 0, 1, ...,
\* pageCount-1; page k+1 is asked for only once the pages up to k have
\* arrived, at most one page fetch is in flight, and the rows returned are
\* the pages' rows in page order.
C8_PagesOneAtATimeInOrder ==
  \A i \in Invocations :
    /\ Cardinality(PageCallsOf(i)) <= 1
    /\ Len(pageLog[i]) <= Len(reader[i])
    /\ \A j \in 1..Len(pageLog[i]) : pageLog[i][j] = j - 1
    /\ \A c \in PageCallsOf(i) :
         /\ c.page = Len(pageLog[i]) - 1
         /\ rows[i] = RowsOfFirstPages(reader[i], c.page)
    /\ sPc[i] = "returned" =>
         /\ Len(pageLog[i]) = Len(reader[i])
         /\ rows[i] = RowsOfFirstPages(reader[i], Len(reader[i]))

\* Two pages of two rows and of one row, asked for as 0 then 1, returned as
\* three rows.
C8_Witness ==
  /\ sPc[1] = "returned"
  /\ Len(reader[1]) = 2
  /\ Len(reader[1][1].data) = 2
  /\ Len(reader[1][2].data) = 1
  /\ pageLog[1] = <<0, 1>>
  /\ Len(rows[1]) = 3
  /\ rows[1][3].cells["A"] = reader[1][2].data[1][1]

(***************************************************************************)
(* The extension: window.onload, fetchDataAndRender, the SummaryDataChanged*)
(* listener and window.onresize of circular-barplot-3.js.  Invocation 0 of *)
(* fetchDataAndRender is the one of window.onload; event n starts          *)
(* invocation n.  The worksheet's summary data after event n is one or two *)
(* pages of one row whose value is n, so that the data of different        *)
(* versions differ.                                                        *)
(***************************************************************************)
Stamp(n) == Str(<<ToString(n)>>)

StampedPages(n) ==
  LET page == [columns |-> <<Column("A", 0)>>, data |-> << <<Stamp(n)>> >>]
  IN  {<<page>>, <<page, page>>}

\* circular-barplot-3.js 34-39 up to the first await, through getEncodedData
\* (utils.js 136), getDataAndVisualSpec (109) and getSummaryDataTable (83-89):
\* the reader and the visual specification are asked for.
FetchStart(i) ==
  /\ fPc' = [fPc EXCEPT ![i] = "awaitAll"]
  /\ vSpec' = [vSpec EXCEPT ![i] = Idle]
  /\ SummaryCall(i)
  /\ hostCalls' = hostCalls \cup
       {HostCall(i, "reader", -1), HostCall(i, "visualSpec", -1)}

\* circular-barplot-3.js 9-12: initializeAsync is awaited.
OnLoad ==
  /\ loadPc = "init"
  /\ loadPc' = "awaitInitialize"
  /\ UNCHANGED <<data, rendered, started, fPc, vSpec, encoded, wsVars, pageVars>>
  /\ CycleFrame

\* circular-barplot-3.js 12-15: the API is initialised and
\* window.fetchDataAndRender() is called and awaited.
InitializeResolved ==
  /\ loadPc = "awaitInitialize"
  /\ loadPc' = "initialFetch"
  /\ FetchStart(0)
  /\ UNCHANGED <<data, rendered, started, encoded, wsVars>>
  /\ CycleFrame

\* utils.js 109: getVisualSpecificationAsync resolves for invocation i.
VisualSpecResolvedFor(i) ==
  /\ ~ContinuationReady
  /\ HostCall(i, "visualSpec", -1) \in hostCalls
  /\ hostCalls' = hostCalls \ {HostCall(i, "visualSpec", -1)}
  /\ vSpec' = [vSpec EXCEPT ![i] = wsVisualSpec]
  /\ UNCHANGED <<sPc, reader, currentPage, rows, pageLog>>
  /\ UNCHANGED <<loadPc, data, rendered, started, fPc, encoded, wsVars>>
  /\ CycleFrame

\* utils.js 109-132 and 136: both results of Promise.all are there, the rows
\* are encoded and getEncodedData resolves with them.
EncodeFor(i) ==
  /\ fPc[i] = "awaitAll"
  /\ sPc[i] = "returned"
  /\ HostCall(i, "visualSpec", -1) \notin hostCalls
  /\ encoded' = [encoded EXCEPT ![i] = EncodeRows(rows[i], getEncodingMap(vSpec[i]))]
  /\ fPc' = [fPc EXCEPT ![i] = "encoded"]
  /\ UNCHANGED <<loadPc, data, rendered, started, vSpec, wsVars, pageVars>>
  /\ CycleFrame

\* data && data.length > 0 && data[0].needleValue
ValidData(d) == Len(d) > 0 /\ "needleValue" \in DOMAIN d[1].channels

\* circular-barplot-3.js 39-48: the module's data is assigned and, when
\* valid, drawn; for invocation 0 window.onload goes on to addEventListeners
\* (18, 54-69).
AssignAndRender(i) ==
  /\ fPc[i] = "encoded"
  /\ data' = encoded[i]
  /\ rendered' = IF ValidData(encoded[i]) THEN encoded[i] ELSE rendered
  /\ fPc' = [fPc EXCEPT ![i] = "done"]
  /\ loadPc' = IF i = 0 THEN "listening" ELSE loadPc
  /\ UNCHANGED <<started, vSpec, encoded, wsVars, pageVars>>
  /\ CycleFrame

\* circular-barplot-3.js 58-61: the worksheet's summary data changes and the
\* listener calls fetchDataAndRender.
SummaryDataChanged ==
  /\ ~ContinuationReady
  /\ loadPc = "listening"
  /\ started < MaxEvents
  /\ started' = started + 1
  /\ wsPages' \in StampedPages(started + 1)
  /\ FetchStart(started + 1)
  /\ UNCHANGED <<loadPc, data, rendered, encoded, wsVisualSpec, wsSelection>>
  /\ CycleFrame

\* circular-barplot-3.js 64-68: the window is resized.
Resize ==
  /\ ~ContinuationReady
  /\ loadPc = "listening"
  /\ rendered' = IF Len(data) > 0 THEN data ELSE rendered
  /\ UNCHANGED <<loadPc, data, started, fPc, vSpec, encoded, wsVars, pageVars>>
  /\ CycleFrame

Init ==
  /\ FogIdle
  /\ SelIdle
  /\ DvLocalsIdle
  /\ PagesIdle
  /\ wsPages \in StampedPages(0)
  /\ wsVisualSpec \in {NeedleSpec, NoCardSpec}
  /\ wsSelection = Idle
  /\ loadPc = "init"
  /\ data = <<>>
  /\ rendered = <<>>
  /\ started = 0
  /\ fPc = [i \in Invocations |-> Idle]
  /\ vSpec = [i \in Invocations |-> Idle]
  /\ encoded = [i \in Invocations |-> <<>>]

Next ==
  \/ OnLoad
  \/ InitializeResolved
  \/ SummaryDataChanged
  \/ Resize
  \/ \E i \in Invocations :
       \/ ReaderResolved(i)
       \/ PageResolved(i)
       \/ ReleaseResolved(i)
       \/ VisualSpecResolvedFor(i)
       \/ EncodeFor(i)
       \/ AssignAndRender(i)

Spec == Init /\ [][Next]_vars

\* Every invocation of fetchDataAndRender that was started has completed.
AllFetchesDone == \A i \in 0..started : fPc[i] = "done"

\* C9 as stated: overlapping invocations of fetchDataAndRender share no
\* variable one writes and another reads or writes, so once all of them have
\* completed the data held for rendering and for the resize re-renders is
\* the result of the fetch that started last.
C9_LatestFetchWins ==
  (loadPc = "listening" /\ AllFetchesDone) => data = encoded[started]

(***************************************************************************)
(* findIdsOfMarks on the selections and row sets of the bounds below.  The *)
(* host's tables are well formed: every row of a table has one value per   *)
(* column.  A row of allMarks has the fields A and B, or B alone.          *)
(***************************************************************************)
MaxMarks == 2
MaxSelectedRows == 2
MaxTables == 2

\* The column lists of a selection's table: one column, two columns, and two
\* columns stored in the grid in the other order.
ColumnLayouts ==
  { <<Column("A", 0)>>,
    <<Column("A", 0), Column("B", 1)>>,
    <<Column("A", 1), Column("B", 0)>> }

SelectedTables ==
  UNION {TablesOf(c, Values, MaxSelectedRows) : c \in ColumnLayouts}
\* The tables after the first carry the single column A.
FurtherTables == TablesOf(<<Column("A", 0)>>, Values, MaxSelectedRows)

Selections ==
  {[data |-> <<>>]}
    \cup {[data |-> <<t>> \o rest] :
            t \in SelectedTables, rest \in SeqsUpTo(FurtherTables, MaxTables - 1)}

MarkRows ==
  {[tupleId |-> 1, cells |-> c] :
     c \in [{"A", "B"} -> Values] \cup [{"B"} -> Values]}

SelFrame == UNCHANGED <<fogVars, wsVars, dvVars, pageVars, cycleVars>>

SelInit ==
  /\ FogIdle
  /\ DvIdle
  /\ PagesIdle
  /\ CycleIdle
  /\ allMarks \in SeqsUpTo(MarkRows, MaxMarks)
  /\ selectedMarks \in Selections
  /\ selOut = Idle
  /\ selPc = "call"

\* utils.js 144: findIdsOfMarks(allMarks, selectedMarks)
FindIdsOfMarksCall ==
  /\ selPc = "call"
  /\ selOut' = findIdsOfMarks(allMarks, selectedMarks)
  /\ selPc' = "done"
  /\ UNCHANGED <<allMarks, selectedMarks>>
  /\ SelFrame

SelNext == FindIdsOfMarksCall

SpecSel == SelInit /\ [][SelNext]_vars

\* The rows of the first table of the selection, and the value a row of it
\* carries in a column.
FirstTableRows == selectedMarks.data[1].data
FirstTableColumns == selectedMarks.data[1].columns
SelectedValue(i, col) == FirstTableRows[i][col.index + 1]

\* Row k of allMarks carries, in every column of the selected table, the
\* value selected row i carries there.
SameTuple(k, i) ==
  \A j \in 1..Len(FirstTableColumns) :
    Cell(allMarks[k], FirstTableColumns[j].fieldName)
      = SelectedValue(i, FirstTableColumns[j])

MarksHaveSelectedColumns ==
  \A k \in 1..Len(allMarks) : \A j \in 1..Len(FirstTableColumns) :
    FirstTableColumns[j].fieldName \in DOMAIN allMarks[k].cells

\* C2 as stated: for a non-empty selected table, findIdsOfMarks returns exactly
\* the positions k of the rows of allMarks that carry, in every column of the
\* selected table, the same values as some selected row.
C2_ExactTupleMatch ==
  (/\ selPc = "done"
   /\ Len(selectedMarks.data) = 1
   /\ Len(FirstTableRows) >= 1
   /\ MarksHaveSelectedColumns)
  => /\ selOut.outcome = "returned"
     /\ selOut.ids = {k \in 1..Len(allMarks) :
                        \E i \in 1..Len(FirstTableRows) : SameTuple(k, i)}

NoSelectedRows ==
  \A t \in 1..Len(selectedMarks.data) : Len(selectedMarks.data[t].data) = 0

\* C3 as stated: with zero selected rows (no data table, or a data table with
\* no rows) findIdsOfMarks returns the empty set, reads no column value of any
\* row of allMarks and builds no composite key.
C3_EmptySelectionReadsNothing ==
  (selPc = "done" /\ NoSelectedRows)
  => /\ selOut.outcome = "returned"
     /\ selOut.ids = {}
     /\ selOut.marksRead = 0
     /\ selOut.keysBuilt = 0

\* C4 as stated: a selection of more than one data table ends in an error
\* outcome, never in a set of ids computed from the first table alone.
C4_MultiTableRejected ==
  (selPc = "done" /\ Len(selectedMarks.data) > 1)
  => selOut.outcome # "returned"

====
